---- MODULE Spec2Model ----
(***************************************************************************)
(* ComfyType (src/src/index.ts): the `init` run of the scaffolding CLI.    *)
(* The state is the project directory (package.json, tsconfig.json,        *)
(* eslint.config.js, .editorconfig, .gitignore, src/, src/index.ts) and    *)
(* the run's locals (command, --module flag, preference, the in-memory     *)
(* manifest, created, moduleScheme, the position in configureProject).     *)
(***************************************************************************)
EXTENDS Integers, Sequences, FiniteSets, TLC

VARIABLES
    fsPackage,      \* package.json on disk
    fsTsconfig,     \* tsconfig.json on disk
    fsEslint,       \* eslint.config.js on disk
    fsEditorconfig, \* .editorconfig on disk
    fsGitignore,    \* .gitignore on disk
    fsSrcDir,       \* whether the directory src exists
    fsEntry,        \* src/index.ts on disk
    command,        \* cli.input[ 0 ]
    flag,           \* cli.flags.module
    preference,     \* modulePreference, once normalized
    packageJson,    \* the manifest in memory
    created,        \* ensurePackageJson's created
    moduleScheme,   \* determineModuleScheme's result
    comfyPackage,   \* cli.pkg, the tool's own manifest
    read,           \* the manifest as ensurePackageJson returned it
    prev,           \* the in-memory manifest before the last merge step
    prevGitignore,  \* .gitignore before the last ensureGitignore
    pc,             \* the statement of the run that executes next
    exitCode,       \* process.exitCode
    runs,           \* how many times the operation was started
    startDir,       \* the directory as it was when this run started
    lastRun         \* the run before this one: where it started and ended

vars == << fsPackage, fsTsconfig, fsEslint, fsEditorconfig, fsGitignore,
           fsSrcDir, fsEntry, command, flag, preference, packageJson,
           created, moduleScheme, comfyPackage, read, prev, prevGitignore,
           pc, exitCode, runs, startDir, lastRun >>

fsVars == << fsPackage, fsTsconfig, fsEslint, fsEditorconfig, fsGitignore,
             fsSrcDir, fsEntry >>

\* what is remembered of the runs, for the properties that compare runs
history == << startDir, lastRun >>

\* there was no run before this one
NoRun == [k |-> "none"]

(***************************************************************************)
(* JavaScript values, tagged by what typeof / === can tell apart.          *)
(***************************************************************************)
JUndef == [k |-> "undef"]
JNull == [k |-> "null"]
JNum == [k |-> "num"]
JStr(s) == [k |-> "str", v |-> s]
JObj(f) == [k |-> "obj", v |-> f]

\* typeof x === "string"
IsString(x) == x.k = "str"

\* x && typeof x === "object": null is an object to typeof, and falsy
IsTruthyObject(x) == x.k = "obj"

\* String.prototype.endsWith
EndsWith(s, suffix) ==
    /\ Len(s) >= Len(suffix)
    /\ SubSeq(s, Len(s) - Len(suffix) + 1, Len(s)) = suffix

\* Object.values
ObjectValues(o) == { o.v[key] : key \in DOMAIN o.v }

\* a file on disk: absent, or its content
NoFile == [k |-> "none"]
File(content) == [k |-> "file", v |-> content]

None == "none"
Preferences == { "auto", "module", "commonjs" }
Schemes == { "module", "commonjs" }

(***************************************************************************)
(* determineModuleScheme                                                   *)
(***************************************************************************)
\* the values pushed on exportCandidates; the loop over them returns
\* "module" as soon as one matches, so their order does not show
exportCandidates(manifest) ==
    (IF IsString(manifest.module) THEN { manifest.module } ELSE {})
    \cup (IF IsString(manifest.main) THEN { manifest.main } ELSE {})
    \cup (IF IsString(manifest.exports) THEN { manifest.exports }
          ELSE IF IsTruthyObject(manifest.exports)
               THEN ObjectValues(manifest.exports)
               ELSE {})

\* the body of the loop over exportCandidates
IsModuleCandidate(candidate) ==
    \/ IsString(candidate) /\ EndsWith(candidate.v, ".mjs")
    \/ IsTruthyObject(candidate) /\ "import" \in DOMAIN candidate.v

\* determineModuleScheme with the declared type consulted before the
\* preference
determineModuleScheme_typeFirst(pref, manifest, wasCreated) ==
    IF manifest.type = JStr("module") THEN "module"
    ELSE IF manifest.type = JStr("commonjs") THEN "commonjs"
    ELSE IF pref = "module" THEN "module"
    ELSE IF pref = "commonjs" THEN "commonjs"
    ELSE IF wasCreated THEN "module"
    ELSE IF \E candidate \in exportCandidates(manifest) :
                IsModuleCandidate(candidate)
         THEN "module"
         ELSE "commonjs"

\* determineModuleScheme without the test of created
determineModuleScheme_noCreated(pref, manifest, wasCreated) ==
    IF pref = "module" THEN "module"
    ELSE IF pref = "commonjs" THEN "commonjs"
    ELSE IF manifest.type = JStr("module") THEN "module"
    ELSE IF manifest.type = JStr("commonjs") THEN "commonjs"
    ELSE IF \E candidate \in exportCandidates(manifest) :
                IsModuleCandidate(candidate)
         THEN "module"
         ELSE "commonjs"

\* determineModuleScheme falling back to "module"
determineModuleScheme_moduleFallback(pref, manifest, wasCreated) ==
    IF pref = "module" THEN "module"
    ELSE IF pref = "commonjs" THEN "commonjs"
    ELSE IF wasCreated THEN "module"
    ELSE IF manifest.type = JStr("commonjs") THEN "commonjs"
    ELSE "module"

\* determineModuleScheme with the signals consulted before the declared
\* type
determineModuleScheme_signalsFirst(pref, manifest, wasCreated) ==
    IF pref = "module" THEN "module"
    ELSE IF pref = "commonjs" THEN "commonjs"
    ELSE IF wasCreated THEN "module"
    ELSE IF \E candidate \in exportCandidates(manifest) :
                IsModuleCandidate(candidate)
         THEN "module"
    ELSE IF manifest.type = JStr("module") THEN "module"
    ELSE "commonjs"

determineModuleScheme(pref, manifest, wasCreated) ==
    IF pref = "module" THEN "module"
    ELSE IF pref = "commonjs" THEN "commonjs"
    ELSE IF wasCreated THEN "module"
    ELSE IF manifest.type = JStr("module") THEN "module"
    ELSE IF manifest.type = JStr("commonjs") THEN "commonjs"
    ELSE IF \E candidate \in exportCandidates(manifest) :
                IsModuleCandidate(candidate)
         THEN "module"
         ELSE "commonjs"

(***************************************************************************)
(* ensureScripts, ensureDevDependencies, syncPackageType                   *)
(***************************************************************************)
\* x ?? {} : the properties of x, none when x is null or undefined
OrEmpty(x) == IF x.k = "obj" THEN x.v ELSE [key \in {} |-> ""]

\* !obj[ key ] on a mapping to strings: absent, or the empty string
IsFalsyAt(obj, key) == key \notin DOMAIN obj \/ obj[key] = ""

\* obj[ key ] = value
SetKey(obj, key, value) ==
    [n \in DOMAIN obj \cup { key } |-> IF n = key THEN value ELSE obj[n]]

\* if( !obj[ key ] ) { obj[ key ] = value; }
SetIfFalsy(obj, key, value) ==
    IF IsFalsyAt(obj, key) THEN SetKey(obj, key, value) ELSE obj

\* ensureScripts assigning every script, as addScripts of the earlier
\* revisions did
ensureScripts_overwrite(manifest) ==
    LET s0 == OrEmpty(manifest.scripts)
        s1 == SetKey(s0, "build", "tsc")
        s2 == SetKey(s1, "clean", "rimraf ./build/")
        s3 == SetKey(s2, "lint", "eslint .")
        s4 == SetKey(s3, "start", "npm run build && node build/index.js")
        s5 == SetKey(s4, "test", "jest")
    IN  [manifest EXCEPT !.scripts = JObj(s5)]

\* ensureScripts putting the build in front of a start script it finds
ensureScripts_chain(manifest) ==
    LET s0 == OrEmpty(manifest.scripts)
        s1 == SetIfFalsy(s0, "build", "tsc")
        s2 == SetIfFalsy(s1, "clean", "rimraf ./build/")
        s3 == SetIfFalsy(s2, "lint", "eslint .")
        s4 == IF IsFalsyAt(s3, "start")
              THEN SetKey(s3, "start", "npm run build && node build/index.js")
              ELSE SetKey(s3, "start", "npm run build && " \o s3["start"])
        s5 == SetIfFalsy(s4, "test", "jest")
    IN  [manifest EXCEPT !.scripts = JObj(s5)]

ensureScripts(manifest) ==
    LET s0 == OrEmpty(manifest.scripts)
        s1 == SetIfFalsy(s0, "build", "tsc")
        s2 == SetIfFalsy(s1, "clean", "rimraf ./build/")
        s3 == SetIfFalsy(s2, "lint", "eslint .")
        s4 == SetIfFalsy(s3, "start", "npm run build && node build/index.js")
        s5 == SetIfFalsy(s4, "test", "jest")
    IN  [manifest EXCEPT !.scripts = JObj(s5)]

\* the dependencies array of ensureDevDependencies
dependencies ==
    << "@types/jest", "@types/node", "@typescript-eslint/eslint-plugin",
       "@typescript-eslint/parser", "eslint", "eslint-config-comfycase",
       "jest", "rimraf", "typescript" >>

\* comfyPackage?.devDependencies ?? {}
sourceDeps(pkg) ==
    IF pkg.k = "obj" /\ "devDependencies" \in DOMAIN pkg.v
    THEN OrEmpty(pkg.v.devDependencies)
    ELSE [key \in {} |-> JUndef]

\* the loop body assigning the tool's version whether or not the manifest
\* pins one, as addDependencies of the earlier revisions did
ensureOneDependency_overwrite(deps, source, dependency) ==
    IF dependency \in DOMAIN source /\ IsString(source[dependency])
    THEN SetKey(deps, dependency, source[dependency].v)
    ELSE deps

\* one iteration of the loop over dependencies
ensureOneDependency(deps, source, dependency) ==
    IF ~IsFalsyAt(deps, dependency) THEN deps
    ELSE IF dependency \in DOMAIN source /\ IsString(source[dependency])
         THEN SetKey(deps, dependency, source[dependency].v)
         ELSE deps

RECURSIVE ensureDependenciesFrom(_, _, _)
ensureDependenciesFrom(deps, source, i) ==
    IF i > Len(dependencies) THEN deps
    ELSE ensureDependenciesFrom(
             ensureOneDependency(deps, source, dependencies[i]), source, i + 1)

ensureDevDependencies(manifest, pkg) ==
    [manifest EXCEPT !.devDependencies =
        JObj(ensureDependenciesFrom(OrEmpty(manifest.devDependencies),
                                    sourceDeps(pkg), 1))]

\* syncPackageType declaring "commonjs" instead of removing the field
syncPackageType_writesCommonjs(manifest, scheme, pref, wasCreated) ==
    LET shouldSync == pref # "auto" \/ wasCreated
    IN  IF ~shouldSync THEN manifest
        ELSE IF scheme = "module"
             THEN [manifest EXCEPT !.type = JStr("module")]
             ELSE [manifest EXCEPT !.type = JStr("commonjs")]

\* syncPackageType acting on an explicit preference only, not on created
syncPackageType_explicitOnly(manifest, scheme, pref, wasCreated) ==
    LET shouldSync == pref # "auto"
    IN  IF ~shouldSync THEN manifest
        ELSE IF scheme = "module"
             THEN IF manifest.type # JStr("module")
                  THEN [manifest EXCEPT !.type = JStr("module")]
                  ELSE manifest
             ELSE IF manifest.type = JStr("module")
                  THEN [manifest EXCEPT !.type = JUndef]
                  ELSE manifest

syncPackageType(manifest, scheme, pref, wasCreated) ==
    LET shouldSync == pref # "auto" \/ wasCreated
    IN  IF ~shouldSync THEN manifest
        ELSE IF scheme = "module"
             THEN IF manifest.type # JStr("module")
                  THEN [manifest EXCEPT !.type = JStr("module")]
                  ELSE manifest
             ELSE IF manifest.type = JStr("module")
                  THEN [manifest EXCEPT !.type = JUndef]
                  ELSE manifest

(***************************************************************************)
(* The generated files                                                     *)
(***************************************************************************)
\* the text of a JSON document: JSON.stringify( value, null, indent ),
\* followed by a newline or not; or a text that is not JSON at all
JsonText(value, indent, newline) ==
    [k |-> "json", json |-> value, indent |-> indent, newline |-> newline]
BadText == [k |-> "bad"]

\* `${ JSON.stringify( value, null, 2 ) }\n`
Stringify(value) == JsonText(value, 2, TRUE)

\* whether JSON.parse( text ) throws
ParseThrows(text) == text.k # "json"

\* JSON.parse( text ): the value, whatever the text's layout
JsonParse(text) == text.json

\* buildTsconfig with the moduleResolution of CommonJS for either scheme
buildTsconfig_nodeResolution(scheme) ==
    LET moduleSetting == IF scheme = "module" THEN "NodeNext" ELSE "CommonJS"
    IN  [ compilerOptions |->
            [ outDir |-> "./build",
              rootDir |-> "./src",
              sourceMap |-> TRUE,
              declaration |-> TRUE,
              declarationMap |-> TRUE,
              strict |-> TRUE,
              target |-> "ES2022",
              lib |-> << "ES2022", "DOM" >>,
              module |-> moduleSetting,
              moduleResolution |-> "Node",
              moduleDetection |-> "force",
              allowSyntheticDefaultImports |-> TRUE,
              resolveJsonModule |-> TRUE,
              esModuleInterop |-> TRUE,
              isolatedModules |-> TRUE,
              skipLibCheck |-> TRUE,
              noEmitOnError |-> TRUE,
              types |-> << "node" >> ],
          include |-> << "./src/**/*" >>,
          exclude |-> << "node_modules", "build" >> ]

buildTsconfig(scheme) ==
    LET moduleSetting == IF scheme = "module" THEN "NodeNext" ELSE "CommonJS"
        moduleResolution == IF scheme = "module" THEN "NodeNext" ELSE "Node"
    IN  [ compilerOptions |->
            [ outDir |-> "./build",
              rootDir |-> "./src",
              sourceMap |-> TRUE,
              declaration |-> TRUE,
              declarationMap |-> TRUE,
              strict |-> TRUE,
              target |-> "ES2022",
              lib |-> << "ES2022", "DOM" >>,
              module |-> moduleSetting,
              moduleResolution |-> moduleResolution,
              moduleDetection |-> "force",
              allowSyntheticDefaultImports |-> TRUE,
              resolveJsonModule |-> TRUE,
              esModuleInterop |-> TRUE,
              isolatedModules |-> TRUE,
              skipLibCheck |-> TRUE,
              noEmitOnError |-> TRUE,
              types |-> << "node" >> ],
          include |-> << "./src/**/*" >>,
          exclude |-> << "node_modules", "build" >> ]

\* the globalsBlock of writeEslintConfig
globalsBlock(scheme) ==
    IF scheme = "commonjs"
    THEN "\t\t\t...globals.browser,\n\t\t\t...globals.node,\n"
         \o "\t\t\t...globals.es2021,\n\t\t\t...globals.commonjs,\n"
    ELSE "\t\t\t...globals.browser,\n\t\t\t...globals.node,\n"
         \o "\t\t\t...globals.es2021,\n"

\* the template of writeEslintConfig up to ${ globalsBlock }
eslintHead ==
       "import js from \"@eslint/js\";\n"
    \o "import globals from \"globals\";\n"
    \o "import tsParser from \"@typescript-eslint/parser\";\n"
    \o "import typescriptPlugin from \"@typescript-eslint/eslint-plugin\";\n"
    \o "import path from \"node:path\";\n"
    \o "import { fileURLToPath } from \"node:url\";\n"
    \o "import { FlatCompat } from \"@eslint/eslintrc\";\n"
    \o "\n"
    \o "const __filename = fileURLToPath( import.meta.url );\n"
    \o "const __dirname = path.dirname( __filename );\n"
    \o "const compat = new FlatCompat( {\n"
    \o "\tbaseDirectory: __dirname,\n"
    \o "\trecommendedConfig: js.configs.recommended,\n"
    \o "\tallConfig: js.configs.all,\n"
    \o "} );\n"
    \o "\n"
    \o "export default [\n"
    \o "\t...compat.extends( \"comfycase\" ),\n"
    \o "\t{\n"
    \o "\t\tignores: [ \"build/**\", \"dist/**\" ],\n"
    \o "\t},\n"
    \o "\t{\n"
    \o "\t\tfiles: [ \"**/*.{ts,tsx,js,jsx,mts,cts,mjs,cjs}\" ],\n"
    \o "\t\tlanguageOptions: {\n"
    \o "\t\t\tparser: tsParser,\n"
    \o "\t\t\tparserOptions: {\n"
    \o "\t\t\t\tecmaVersion: \"latest\",\n"
    \o "\t\t\t\tsourceType: \"module\",\n"
    \o "\t\t\t},\n"
    \o "\t\t\tglobals: {\n"

\* the template of writeEslintConfig after ${ globalsBlock }
eslintTail ==
       "\t\t\t},\n"
    \o "\t\t},\n"
    \o "\t\tplugins: {\n"
    \o "\t\t\t\"@typescript-eslint\": typescriptPlugin,\n"
    \o "\t\t},\n"
    \o "\t\trules: {\n"
    \o "\t\t\t\"no-unused-vars\": \"off\",\n"
    \o "\t\t\t\"@typescript-eslint/no-unused-vars\": [ \"warn\" ],\n"
    \o "\t\t},\n"
    \o "\t},\n"
    \o "];\n"

eslintConfig(scheme) == eslintHead \o globalsBlock(scheme) \o eslintTail

\* the text of writeEditorConfig
editorConfig ==
       "root = true\n"
    \o "\n"
    \o "[*]\n"
    \o "indent_style = tab\n"
    \o "indent_size = 4\n"
    \o "charset = utf-8\n"
    \o "end_of_line = lf\n"
    \o "insert_final_newline = true\n"

\* the starter file of ensureSourceLayout
entryPointText == "console.log( \"Hello Comfy World!\" );\n"

(***************************************************************************)
(* ensureGitignore                                                         *)
(***************************************************************************)
\* buildPatterns without the pattern ensureGitignore appends
buildPatterns_withoutAppended == { "build/", "build" }

buildPatterns == { "/build", "build/", "build" }

\* the character of s at position i
CharAt(s, i) == SubSeq(s, i, i)

\* the white space String.prototype.trim removes, as far as the files of
\* the model hold it
WhiteSpace == { " ", "\t", "\r", "\n" }

RECURSIVE TrimStart(_)
TrimStart(s) ==
    IF Len(s) > 0 /\ CharAt(s, 1) \in WhiteSpace
    THEN TrimStart(SubSeq(s, 2, Len(s)))
    ELSE s

RECURSIVE TrimEnd(_)
TrimEnd(s) ==
    IF Len(s) > 0 /\ CharAt(s, Len(s)) \in WhiteSpace
    THEN TrimEnd(SubSeq(s, 1, Len(s) - 1))
    ELSE s

\* String.prototype.trim
Trim(s) == TrimEnd(TrimStart(s))

\* the position of the first "\n" of s at or after i, 0 when there is none
RECURSIVE IndexOfNewline(_, _)
IndexOfNewline(s, i) ==
    IF i > Len(s) THEN 0
    ELSE IF CharAt(s, i) = "\n" THEN i
    ELSE IndexOfNewline(s, i + 1)

\* s.split( /\r?\n/ ): the separator is "\n" with the "\r" before it, if any
RECURSIVE SplitLines(_)
SplitLines(s) ==
    LET n == IndexOfNewline(s, 1)
        cut == IF n > 1 /\ CharAt(s, n - 1) = "\r" THEN n - 2 ELSE n - 1
    IN  IF n = 0 THEN << s >>
        ELSE << SubSeq(s, 1, cut) >> \o SplitLines(SubSeq(s, n + 1, Len(s)))

\* lines.some( ( line ) => buildPatterns.has( line ) ), lines trimmed
hasBuildIgnore(current) ==
    LET lines == SplitLines(current)
    IN  \E i \in 1..Len(lines) : Trim(lines[i]) \in buildPatterns

\* .gitignore after ensureGitignore, from .gitignore before it
ensureGitignore(file) ==
    IF file # NoFile
    THEN LET current == file.v
             suffix == IF EndsWith(current, "\n") THEN "" ELSE "\n"
         IN  IF hasBuildIgnore(current) THEN file
             ELSE File(current \o suffix \o "/build\n")
    ELSE File("node_modules/\n/build\n")

(***************************************************************************)
(* The manifest: the fields the tool reads or writes, and one it does not  *)
(* know (name).  A field that is absent is JUndef.                         *)
(***************************************************************************)
Manifest(type, main, module, exports, scripts, devDependencies, name) ==
    [ type |-> type, main |-> main, module |-> module, exports |-> exports,
      scripts |-> scripts, devDependencies |-> devDependencies,
      name |-> name ]

\* every mapping from a subset of keys to values
Mappings(keys, values) == UNION { [D -> values] : D \in SUBSET keys }

(***************************************************************************)
(* The steps of configureProject, one action per call                      *)
(***************************************************************************)
DetermineModuleSchemeStep ==
    /\ pc = "detect"
    /\ moduleScheme' = determineModuleScheme(preference, packageJson, created)
    /\ pc' = "scripts"
    /\ UNCHANGED << history,
                    fsVars, command, flag, preference, packageJson, created,
                    comfyPackage, read, prev, prevGitignore, exitCode, runs >>

EnsureScriptsStep ==
    /\ pc = "scripts"
    /\ prev' = packageJson
    /\ packageJson' = ensureScripts(packageJson)
    /\ pc' = "deps"
    /\ UNCHANGED << history,
                    fsVars, command, flag, preference, created, moduleScheme,
                    comfyPackage, read, prevGitignore, exitCode, runs >>

EnsureDevDependenciesStep ==
    /\ pc = "deps"
    /\ prev' = packageJson
    /\ packageJson' = ensureDevDependencies(packageJson, comfyPackage)
    /\ pc' = "sync"
    /\ UNCHANGED << history,
                    fsVars, command, flag, preference, created, moduleScheme,
                    comfyPackage, read, prevGitignore, exitCode, runs >>

SyncPackageTypeStep ==
    /\ pc = "sync"
    /\ prev' = packageJson
    /\ packageJson' =
           syncPackageType(packageJson, moduleScheme, preference, created)
    /\ pc' = "writePackage"
    /\ UNCHANGED << history,
                    fsVars, command, flag, preference, created, moduleScheme,
                    comfyPackage, read, prevGitignore, exitCode, runs >>

\* writePackageJson writing a manifest rebuilt from the fields the tool
\* knows
writePackageJson_knownFields(manifest) ==
    File(Stringify([manifest EXCEPT !.name = JUndef]))

\* the content writePackageJson writes
writePackageJson(manifest) == File(Stringify(manifest))

WritePackageJsonStep ==
    /\ pc = "writePackage"
    /\ fsPackage' = writePackageJson(packageJson)
    /\ pc' = "writeTsconfig"
    /\ UNCHANGED << history,
                    fsTsconfig, fsEslint, fsEditorconfig, fsGitignore,
                    fsSrcDir, fsEntry, command, flag, preference, packageJson,
                    created, moduleScheme, comfyPackage, read, prev,
                    prevGitignore, exitCode, runs >>

(***************************************************************************)
(* determineModuleScheme on its own: every manifest of DetectManifests,    *)
(* every preference, created or not                                        *)
(***************************************************************************)
\* paths: a script, a module, one that only contains ".mjs", the bare
\* extension, and one shorter than the extension
DetectPaths == { "index.js", "index.mjs", "index.mjs.js", ".mjs", "js" }
ExportPaths == { "./index.js", "./index.mjs" }

\* a condition mapping nested in exports: { import: ..., default: ... }
NestedExports ==
    { JObj(f) : f \in Mappings({ "import", "default" },
                                { JStr(p) : p \in ExportPaths }) }

\* exports: absent, null, a string, or a mapping whose "." entry is a
\* string, null or a condition mapping and whose "import" entry is a string
DetectExports ==
    { JUndef, JNull } \cup { JStr(p) : p \in ExportPaths }
    \cup { JObj(f) : f \in
             { g \in Mappings({ ".", "import" },
                              { JStr(p) : p \in ExportPaths }
                              \cup { JNull } \cup NestedExports) :
                 "import" \in DOMAIN g => IsString(g["import"]) } }

DetectTypes == { JUndef, JStr("module"), JStr("commonjs"), JStr("umd") }

DetectManifests ==
    { Manifest(type, main, module, exports, JUndef, JUndef, JStr("app")) :
        type \in DetectTypes,
        main \in { JUndef, JNum } \cup { JStr(p) : p \in DetectPaths },
        module \in { JUndef, JStr("index.js"), JStr("index.mjs") },
        exports \in DetectExports }

\* a tool manifest that pins each of the nine dependencies
ComfyPackageFull ==
    JObj([ name |-> JStr("comfytype"),
           devDependencies |->
               JObj([ d \in { dependencies[i] : i \in 1..Len(dependencies) }
                        |-> JStr("^1.0.0") ]) ])

InitDetect ==
    /\ packageJson \in DetectManifests
    /\ preference \in Preferences
    /\ created \in BOOLEAN
    /\ fsPackage = File(Stringify(packageJson))
    /\ fsTsconfig = NoFile
    /\ fsEslint = NoFile
    /\ fsEditorconfig = NoFile
    /\ fsGitignore = NoFile
    /\ fsSrcDir = FALSE
    /\ fsEntry = NoFile
    /\ command = "init"
    /\ flag = JStr(preference)
    /\ moduleScheme = None
    /\ comfyPackage = ComfyPackageFull
    /\ read = packageJson
    /\ prev = packageJson
    /\ prevGitignore = NoFile
    /\ pc = "detect"
    /\ exitCode = 0
    /\ runs = 1
    /\ startDir = fsVars
    /\ lastRun = NoRun

NextDetect == DetermineModuleSchemeStep

SpecDetect == InitDetect /\ [][NextDetect]_vars

\* the scheme has been determined from read, preference and created
Detected == pc = "scripts"

\* C1: with preference "module" or "commonjs" the detected scheme is the
\* preference, for every manifest and both values of created.
C1_ExplicitPreferenceWins ==
    Detected /\ preference \in { "module", "commonjs" }
        => moduleScheme = preference

\* C1's case: the scheme was determined under an explicit preference that
\* the manifest's declared type contradicts
C1_Witness ==
    /\ Detected
    /\ preference = "commonjs"
    /\ read.type = JStr("module")
    /\ moduleScheme = "commonjs"

\* C2: a manifest created in this run resolves to "module" under the
\* preference "auto", whatever the manifest carries.
C2_CreatedDefaultsToModule ==
    Detected /\ created /\ preference = "auto" => moduleScheme = "module"

\* C2's case: a freshly created manifest of type "commonjs" under "auto"
C2_Witness ==
    /\ Detected
    /\ created
    /\ preference = "auto"
    /\ read.type = JStr("commonjs")
    /\ moduleScheme = "module"

\* the manifest has no type, module, main or exports field
NoSignal(manifest) ==
    /\ manifest.type = JUndef
    /\ manifest.module = JUndef
    /\ manifest.main = JUndef
    /\ manifest.exports = JUndef

\* C3: under "auto", an existing manifest with no type, module, main or
\* exports field resolves to "commonjs".
C3_NoSignalIsCommonjs ==
    Detected /\ preference = "auto" /\ ~created /\ NoSignal(read)
        => moduleScheme = "commonjs"

\* C3's case: the scheme was determined for such a manifest
C3_Witness ==
    Detected /\ preference = "auto" /\ ~created /\ NoSignal(read)

\* a string that ends in the module extension
IsMjs(x) == IsString(x) /\ EndsWith(x.v, ".mjs")

\* the signals C4 lists: a .mjs target in module, main, a string exports,
\* a string value of exports or a string entry of a nested mapping value
\* of exports, or a nested mapping with an "import" key
C4_Signal(manifest) ==
    \/ IsMjs(manifest.module)
    \/ IsMjs(manifest.main)
    \/ IsMjs(manifest.exports)
    \/ /\ manifest.exports.k = "obj"
       /\ \E key \in DOMAIN manifest.exports.v :
            LET value == manifest.exports.v[key]
            IN  \/ IsMjs(value)
                \/ /\ value.k = "obj"
                   /\ \/ "import" \in DOMAIN value.v
                      \/ \E inner \in DOMAIN value.v :
                            IsMjs(value.v[inner])

\* C4: under "auto", for an existing manifest whose type is neither
\* "module" nor "commonjs", the scheme is "module" exactly when one of the
\* signals of C4_Signal is present, and "commonjs" otherwise.
C4_InferredFromSignals ==
    /\ Detected
    /\ preference = "auto"
    /\ ~created
    /\ read.type \notin { JStr("module"), JStr("commonjs") }
    => (moduleScheme = "module" <=> C4_Signal(read))

(***************************************************************************)
(* The merge on its own: ensureScripts, ensureDevDependencies,             *)
(* syncPackageType and writePackageJson, applied MaxMerges times to the    *)
(* manifests of three families: every scripts mapping, every               *)
(* devDependencies mapping with every tool manifest, and every type with   *)
(* every scheme, preference and created.                                   *)
(***************************************************************************)
MaxMerges == 2

ScriptNames == { "start", "build", "clean", "test", "lint" }

\* scripts: absent, null, or a mapping of some of the five names and of one
\* other name to an empty or a non-empty command
MergeScripts ==
    { JUndef, JNull }
    \cup { JObj(f) : f \in Mappings(ScriptNames \cup { "deploy" },
                                    { "", "custom" }) }

DependencyNames == { dependencies[i] : i \in 1..Len(dependencies) }

\* devDependencies: absent, null, or a mapping of three of the nine names
\* and of one other name to an empty or a non-empty version
MergeDevDependencies ==
    { JUndef, JNull }
    \cup { JObj(f) : f \in Mappings({ "typescript", "eslint", "jest",
                                      "left-pad" }, { "", "^0.1.0" }) }

\* the tool's manifest: none, one without devDependencies, or one whose
\* devDependencies hold, for typescript and eslint, nothing, a version, an
\* empty string or a value that is no string, and a version for the rest
ComfyPackages ==
    { JUndef, JObj([ name |-> JStr("comfytype") ]) }
    \cup { JObj([ name |-> JStr("comfytype"),
                  devDependencies |-> JObj(f) ]) :
             f \in { g \in Mappings(DependencyNames,
                                    { JStr("^1.0.0"), JStr(""), JNum }) :
                       /\ DependencyNames \ { "typescript", "eslint" }
                              \subseteq DOMAIN g
                       /\ \A d \in DOMAIN g \ { "typescript", "eslint" } :
                              g[d] = JStr("^1.0.0") } }

\* the manifest of the scenario: { type: "module", scripts: { build: "custom" } }
ScenarioManifest ==
    Manifest(JStr("module"), JUndef, JUndef, JUndef,
             JObj([ build |-> "custom" ]), JUndef, JUndef)

MergeTypes == { JUndef, JNull, JStr("module"), JStr("commonjs"), JStr("umd") }

InitMergeInputs ==
    \/ /\ packageJson \in
            { Manifest(JUndef, JStr("index.js"), JUndef, JUndef, scripts,
                       JUndef, JStr("app")) : scripts \in MergeScripts }
       /\ comfyPackage = ComfyPackageFull
       /\ moduleScheme = "commonjs"
       /\ preference = "auto"
       /\ created = FALSE
    \/ /\ packageJson \in
            { Manifest(JUndef, JStr("index.js"), JUndef, JUndef, JUndef,
                       deps, JStr("app")) : deps \in MergeDevDependencies }
       /\ comfyPackage \in ComfyPackages
       /\ moduleScheme = "commonjs"
       /\ preference = "auto"
       /\ created = FALSE
    \/ /\ packageJson \in
            { Manifest(type, JUndef, JUndef, JUndef, scripts, JUndef, JUndef) :
                type \in MergeTypes,
                scripts \in { JUndef, JObj([ build |-> "custom" ]) } }
       /\ comfyPackage = ComfyPackageFull
       /\ moduleScheme \in Schemes
       /\ preference \in Preferences
       /\ created \in BOOLEAN

InitMerge ==
    /\ InitMergeInputs
    /\ fsPackage = File(Stringify(packageJson))
    /\ fsTsconfig = NoFile
    /\ fsEslint = NoFile
    /\ fsEditorconfig = NoFile
    /\ fsGitignore = NoFile
    /\ fsSrcDir = FALSE
    /\ fsEntry = NoFile
    /\ command = "init"
    /\ flag = JStr(preference)
    /\ read = packageJson
    /\ prev = packageJson
    /\ prevGitignore = NoFile
    /\ pc = "scripts"
    /\ exitCode = 0
    /\ runs = 1
    /\ startDir = fsVars
    /\ lastRun = NoRun

\* the merge applied again, to the manifest the last application wrote
MergeAgain ==
    /\ pc = "writeTsconfig"
    /\ runs < MaxMerges
    /\ runs' = runs + 1
    /\ packageJson' = JsonParse(fsPackage.v)
    /\ read' = packageJson'
    /\ prev' = packageJson'
    /\ pc' = "scripts"
    /\ UNCHANGED << history,
                    fsVars, command, flag, preference, created, moduleScheme,
                    comfyPackage, prevGitignore, exitCode >>

NextMerge ==
    \/ EnsureScriptsStep
    \/ EnsureDevDependenciesStep
    \/ SyncPackageTypeStep
    \/ WritePackageJsonStep
    \/ MergeAgain

SpecMerge == InitMerge /\ [][NextMerge]_vars

(***************************************************************************)
(* ensureGitignore on its own, run MaxEnsures times on an absent           *)
(* .gitignore and on every text of up to MaxPieces pieces                  *)
(***************************************************************************)
MaxPieces == 4
MaxEnsures == 3

GitignorePieces == { "build", "/", "dist", "\n", "\r", " " }

RECURSIVE GitignoreTexts(_)
GitignoreTexts(n) ==
    IF n = 0 THEN { "" }
    ELSE LET shorter == GitignoreTexts(n - 1)
         IN  shorter \cup { t \o piece : t \in shorter,
                                         piece \in GitignorePieces }

\* a manifest with nothing but a name and a main
BareManifest ==
    Manifest(JUndef, JStr("index.js"), JUndef, JUndef, JUndef, JUndef,
             JStr("app"))

\* what configureProject makes of a manifest
merged(manifest, pkg, scheme, pref, wasCreated) ==
    syncPackageType(ensureDevDependencies(ensureScripts(manifest), pkg),
                    scheme, pref, wasCreated)

\* the state before ensureGitignore in a run under "auto" on BareManifest
InitGitignore ==
    /\ fsGitignore \in { NoFile }
           \cup { File(t) : t \in GitignoreTexts(MaxPieces) }
    /\ preference = "auto"
    /\ created = FALSE
    /\ read = BareManifest
    /\ comfyPackage = ComfyPackageFull
    /\ moduleScheme = determineModuleScheme(preference, read, created)
    /\ packageJson =
           merged(read, comfyPackage, moduleScheme, preference, created)
    /\ prev = packageJson
    /\ fsPackage = writePackageJson(packageJson)
    /\ fsTsconfig = File(Stringify(buildTsconfig(moduleScheme)))
    /\ fsEslint = File(eslintConfig(moduleScheme))
    /\ fsEditorconfig = File(editorConfig)
    /\ fsSrcDir = FALSE
    /\ fsEntry = NoFile
    /\ command = "init"
    /\ flag = JStr(preference)
    /\ prevGitignore = fsGitignore
    /\ pc = "gitignore"
    /\ exitCode = 0
    /\ runs = 1
    /\ startDir = fsVars
    /\ lastRun = NoRun

EnsureGitignoreStep ==
    /\ pc = "gitignore"
    /\ prevGitignore' = fsGitignore
    /\ fsGitignore' = ensureGitignore(fsGitignore)
    /\ pc' = "srcDir"
    /\ UNCHANGED << history,
                    fsPackage, fsTsconfig, fsEslint, fsEditorconfig, fsSrcDir,
                    fsEntry, command, flag, preference, packageJson, created,
                    moduleScheme, comfyPackage, read, prev, exitCode, runs >>

\* ensureGitignore run again on the file it left
EnsureGitignoreAgain ==
    /\ pc = "srcDir"
    /\ runs < MaxEnsures
    /\ runs' = runs + 1
    /\ pc' = "gitignore"
    /\ UNCHANGED << history,
                    fsVars, command, flag, preference, packageJson, created,
                    moduleScheme, comfyPackage, read, prev, prevGitignore,
                    exitCode >>

NextGitignore == EnsureGitignoreStep \/ EnsureGitignoreAgain

SpecGitignore == InitGitignore /\ [][NextGitignore]_vars

(***************************************************************************)
(* The program: the top-level try, configureProject, and the program run   *)
(* again on the directory the last run left, up to MaxRuns runs            *)
(***************************************************************************)
MaxRuns == 2

\* String.prototype.toLowerCase
UpperCase == "ABCDEFGHIJKLMNOPQRSTUVWXYZ"
LowerCase == "abcdefghijklmnopqrstuvwxyz"

LowerChar(c) ==
    IF \E i \in 1..Len(UpperCase) : CharAt(UpperCase, i) = c
    THEN CharAt(LowerCase,
                CHOOSE i \in 1..Len(UpperCase) : CharAt(UpperCase, i) = c)
    ELSE c

RECURSIVE ToLowerCase(_)
ToLowerCase(s) ==
    IF Len(s) = 0 THEN ""
    ELSE LowerChar(CharAt(s, 1)) \o ToLowerCase(SubSeq(s, 2, Len(s)))

\* a normalizeModulePreference that returns whatever it is given
normalizeThrows_never(value) == FALSE

\* whether normalizeModulePreference throws
normalizeThrows(value) ==
    /\ IsString(value)
    /\ Len(Trim(value.v)) # 0
    /\ ToLowerCase(Trim(value.v)) \notin Preferences

\* normalizeModulePreference, where it returns
normalizeModulePreference(value) ==
    IF ~IsString(value) \/ Len(Trim(value.v)) = 0 THEN "auto"
    ELSE ToLowerCase(Trim(value.v))

\* the run's locals before anything is assigned
NoLocals ==
    /\ preference = None
    /\ packageJson = JUndef
    /\ created = FALSE
    /\ moduleScheme = None
    /\ read = JUndef
    /\ prev = JUndef

\* const modulePreference = normalizeModulePreference( cli.flags.module ),
\* and the catch when it throws
NormalizeStep ==
    /\ pc = "start"
    /\ \/ /\ ~normalizeThrows(flag)
          /\ preference' = normalizeModulePreference(flag)
          /\ pc' = "configure"
          /\ UNCHANGED exitCode
       \/ /\ normalizeThrows(flag)
          /\ pc' = "exit"
          /\ exitCode' = 1
          /\ UNCHANGED preference
    /\ UNCHANGED << history,
                    fsVars, command, flag, packageJson, created, moduleScheme,
                    comfyPackage, read, prev, prevGitignore, runs >>

\* the switch of configureProject; cli.showHelp() ends the process with
\* meow's default code, 2
ConfigureProjectStep ==
    /\ pc = "configure"
    /\ \/ /\ command \in { "", "init" }
          /\ pc' = "ensure"
          /\ UNCHANGED exitCode
       \/ /\ command \notin { "", "init" }
          /\ pc' = "exit"
          /\ exitCode' = 2
    /\ UNCHANGED << history,
                    fsVars, flag, command, preference, packageJson, created,
                    moduleScheme, comfyPackage, read, prev, prevGitignore,
                    runs >>

\* what `npm init -y` writes: a name, a main, a placeholder test script
\* and, with the newer npm, the type "commonjs"
NpmInitManifests ==
    { Manifest(type, JStr("index.js"), JUndef, JUndef,
               JObj([ test |-> "echo \"Error: no test specified\" && exit 1" ]),
               JUndef, JStr("app")) : type \in { JUndef, JStr("commonjs") } }

ensurePackageJsonLocals ==
    << history, fsTsconfig, fsEslint, fsEditorconfig, fsGitignore, fsSrcDir,
       fsEntry,
       command, flag, preference, moduleScheme, comfyPackage, prevGitignore,
       runs >>

\* ensurePackageJson: the file exists and parses, exists and does not
\* parse, is created by npm init and read, or npm init fails
EnsurePackageJsonStep ==
    /\ pc = "ensure"
    /\ \/ /\ fsPackage # NoFile
          /\ ~ParseThrows(fsPackage.v)
          /\ packageJson' = JsonParse(fsPackage.v)
          /\ created' = FALSE
          /\ read' = packageJson'
          /\ prev' = packageJson'
          /\ pc' = "detect"
          /\ UNCHANGED << fsPackage, exitCode >>
       \/ /\ fsPackage # NoFile
          /\ ParseThrows(fsPackage.v)
          /\ pc' = "exit"
          /\ exitCode' = 1
          /\ UNCHANGED << fsPackage, packageJson, created, read, prev >>
       \/ /\ fsPackage = NoFile
          /\ \E manifest \in NpmInitManifests :
                /\ fsPackage' = File(Stringify(manifest))
                /\ packageJson' = manifest
          /\ created' = TRUE
          /\ read' = packageJson'
          /\ prev' = packageJson'
          /\ pc' = "detect"
          /\ UNCHANGED exitCode
       \/ /\ fsPackage = NoFile
          /\ pc' = "exit"
          /\ exitCode' = 1
          /\ UNCHANGED << fsPackage, packageJson, created, read, prev >>
    /\ UNCHANGED ensurePackageJsonLocals

runLocals ==
    << history, command, flag, preference, packageJson, created, moduleScheme,
       comfyPackage, read, prev, exitCode, runs >>

WriteTsconfigJsonStep ==
    /\ pc = "writeTsconfig"
    /\ fsTsconfig' = File(Stringify(buildTsconfig(moduleScheme)))
    /\ pc' = "writeEslint"
    /\ UNCHANGED << fsPackage, fsEslint, fsEditorconfig, fsGitignore,
                    fsSrcDir, fsEntry, prevGitignore, runLocals >>

WriteEslintConfigStep ==
    /\ pc = "writeEslint"
    /\ fsEslint' = File(eslintConfig(moduleScheme))
    /\ pc' = "writeEditorconfig"
    /\ UNCHANGED << fsPackage, fsTsconfig, fsEditorconfig, fsGitignore,
                    fsSrcDir, fsEntry, prevGitignore, runLocals >>

WriteEditorConfigStep ==
    /\ pc = "writeEditorconfig"
    /\ fsEditorconfig' = File(editorConfig)
    /\ pc' = "gitignore"
    /\ UNCHANGED << fsPackage, fsTsconfig, fsEslint, fsGitignore, fsSrcDir,
                    fsEntry, prevGitignore, runLocals >>

\* ensureSourceLayout, the directory: mkdir when src does not exist
EnsureSrcDirStep ==
    /\ pc = "srcDir"
    /\ fsSrcDir' = TRUE
    /\ pc' = "entryPoint"
    /\ UNCHANGED << fsPackage, fsTsconfig, fsEslint, fsEditorconfig,
                    fsGitignore, fsEntry, prevGitignore, runLocals >>

\* ensureSourceLayout, the starter file: written when it does not exist;
\* configureProject then returns and the process ends
EnsureEntryPointStep ==
    /\ pc = "entryPoint"
    /\ fsEntry' = IF fsEntry = NoFile THEN File(entryPointText) ELSE fsEntry
    /\ pc' = "exit"
    /\ UNCHANGED << fsPackage, fsTsconfig, fsEslint, fsEditorconfig,
                    fsGitignore, fsSrcDir, prevGitignore, runLocals >>

\* the steps that write to the directory
WritingSteps ==
    { "writePackage", "writeTsconfig", "writeEslint", "writeEditorconfig",
      "gitignore", "srcDir", "entryPoint" }

\* a catch that reports the error and leaves the exit code alone
StepThrows_swallowed ==
    /\ pc \in WritingSteps
    /\ pc' = "exit"
    /\ UNCHANGED << history, fsVars, command, flag, preference, packageJson,
                    created, moduleScheme, comfyPackage, read, prev,
                    prevGitignore, exitCode, runs >>

\* a filesystem call of the step throws: nothing is written, the catch sets
\* the exit code
StepThrows ==
    /\ pc \in WritingSteps
    /\ pc' = "exit"
    /\ exitCode' = 1
    /\ UNCHANGED << history,
                    fsVars, command, flag, preference, packageJson, created,
                    moduleScheme, comfyPackage, read, prev, prevGitignore,
                    runs >>

Commands == { "", "init", "help" }

\* values of --module: the three preferences, one to trim and lower, the
\* empty string, and one that is no preference
Flags ==
    { JStr("auto"), JStr("module"), JStr("commonjs"), JStr(" CommonJS"),
      JStr(""), JStr("esm") }

\* the program is started again in the directory as the last run left it
RunAgain ==
    /\ pc = "exit"
    /\ runs < MaxRuns
    /\ runs' = runs + 1
    /\ flag' \in { JStr(p) : p \in Preferences }
    /\ preference' = None
    /\ packageJson' = JUndef
    /\ created' = FALSE
    /\ moduleScheme' = None
    /\ read' = JUndef
    /\ prev' = JUndef
    /\ prevGitignore' = fsGitignore
    /\ exitCode' = 0
    /\ pc' = "start"
    /\ startDir' = fsVars
    /\ lastRun' = [ k |-> "run", startDir |-> startDir,
                    preference |-> preference, moduleScheme |-> moduleScheme,
                    exitCode |-> exitCode ]
    /\ UNCHANGED << fsVars, command, comfyPackage >>

\* manifests of existing projects
RunManifests ==
    { BareManifest,
      ScenarioManifest,
      Manifest(JUndef, JStr("index.mjs"), JUndef, JUndef, JUndef, JUndef,
               JStr("app")),
      Manifest(JStr("commonjs"), JStr("index.js"), JUndef,
               JObj([ i \in { "." } |->
                        JObj([ import |-> JStr("./index.mjs") ]) ]),
               JObj([ start |-> "node ." ]),
               JObj([ typescript |-> "^0.1.0" ]), JStr("app")),
      Manifest(JUndef, JUndef, JStr("index.js"),
               JObj([ i \in { "." } |->
                        JObj([ default |-> JStr("./index.mjs") ]) ]),
               JNull, JNull, JUndef) }

\* package.json: absent, not JSON, or a manifest in the layout the tool
\* writes; BareManifest also in another layout
InitPackages ==
    { NoFile, File(BadText), File(JsonText(BareManifest, 4, FALSE)) }
    \cup { File(Stringify(m)) : m \in RunManifests }

\* the directory: every package.json in an otherwise empty directory, and
\* around BareManifest every .gitignore, src and set of generated files
InitDirectory ==
    \/ /\ fsPackage \in InitPackages
       /\ fsTsconfig = NoFile
       /\ fsEslint = NoFile
       /\ fsEditorconfig = NoFile
       /\ fsGitignore = NoFile
       /\ fsSrcDir = FALSE
       /\ fsEntry = NoFile
    \/ /\ fsPackage = File(Stringify(BareManifest))
       /\ \E generated \in
               { << NoFile, NoFile, NoFile >>,
                 << File(BadText), File("module.exports = {};\n"),
                    File("root = true\n") >> } :
             /\ fsTsconfig = generated[1]
             /\ fsEslint = generated[2]
             /\ fsEditorconfig = generated[3]
       /\ fsGitignore \in
            { NoFile, File("node_modules"), File("dist\r\nbuild/\r\n") }
       /\ \E layout \in
               { << FALSE, NoFile >>, << TRUE, NoFile >>,
                 << TRUE, File("export {};\n") >> } :
             /\ fsSrcDir = layout[1]
             /\ fsEntry = layout[2]

Init ==
    /\ InitDirectory
    /\ command \in Commands
    /\ flag \in Flags
    /\ comfyPackage = ComfyPackageFull
    /\ NoLocals
    /\ prevGitignore = fsGitignore
    /\ pc = "start"
    /\ exitCode = 0
    /\ runs = 1
    /\ startDir = fsVars
    /\ lastRun = NoRun

Next ==
    \/ NormalizeStep
    \/ ConfigureProjectStep
    \/ EnsurePackageJsonStep
    \/ DetermineModuleSchemeStep
    \/ EnsureScriptsStep
    \/ EnsureDevDependenciesStep
    \/ SyncPackageTypeStep
    \/ WritePackageJsonStep
    \/ WriteTsconfigJsonStep
    \/ WriteEslintConfigStep
    \/ WriteEditorConfigStep
    \/ EnsureGitignoreStep
    \/ EnsureSrcDirStep
    \/ EnsureEntryPointStep
    \/ StepThrows
    \/ RunAgain

Spec == Init /\ [][Next]_vars

\* the entries of a mapping field, none when the field is absent or null
Entries(field) == IF field.k = "obj" THEN field.v ELSE << >>

\* whether a mapping holds a non-empty value under a name
HasValue(entries, n) == n \in DOMAIN entries /\ entries[n] # ""

\* the default command of each script
scriptDefaults ==
    [ start |-> "npm run build && node build/index.js",
      build |-> "tsc",
      clean |-> "rimraf ./build/",
      test |-> "jest",
      lint |-> "eslint ." ]

\* ensureScripts has just acted: prev is the manifest it was given
ScriptsEnsured == pc = "deps"

\* C5: ensureScripts keeps each of the five scripts that was present and
\* non-empty, sets each other one to its default, leaves every other entry
\* of scripts and every other field alone, and creates a missing mapping.
C5_ScriptsAdditiveOnly ==
    ScriptsEnsured =>
        LET before == Entries(prev.scripts)
            after == Entries(packageJson.scripts)
        IN  /\ packageJson.scripts.k = "obj"
            /\ DOMAIN after = DOMAIN before \cup ScriptNames
            /\ \A n \in ScriptNames :
                   after[n] = IF HasValue(before, n) THEN before[n]
                              ELSE scriptDefaults[n]
            /\ \A n \in DOMAIN before \ ScriptNames : after[n] = before[n]
            /\ [packageJson EXCEPT !.scripts = prev.scripts] = prev

\* C5's case: a manifest with its own build, an empty test and a script the
\* tool does not know went through ensureScripts
C5_Witness ==
    /\ ScriptsEnsured
    /\ prev.scripts.k = "obj"
    /\ DOMAIN prev.scripts.v = { "build", "test", "deploy" }
    /\ prev.scripts.v["build"] = "custom"
    /\ prev.scripts.v["test"] = ""
    /\ packageJson.scripts.v["build"] = "custom"
    /\ packageJson.scripts.v["test"] = "jest"
    /\ packageJson.scripts.v["deploy"] = prev.scripts.v["deploy"]

\* ensureDevDependencies has just acted: prev is the manifest it was given
DevDependenciesEnsured == pc = "sync"

\* whether the tool's own manifest holds a string version for a name
ToolHasVersion(pkg, d) ==
    /\ pkg.k = "obj"
    /\ "devDependencies" \in DOMAIN pkg.v
    /\ pkg.v.devDependencies.k = "obj"
    /\ d \in DOMAIN pkg.v.devDependencies.v
    /\ pkg.v.devDependencies.v[d].k = "str"

ToolVersion(pkg, d) == pkg.v.devDependencies.v[d].v

\* C6: ensureDevDependencies leaves a version that is present and non-empty
\* as it is, fills another one from the tool's manifest when the tool holds
\* a string version for it and otherwise leaves it as it was (absent stays
\* absent), and leaves the entries of other packages and every other field
\* alone.
C6_PinsNeverOverridden ==
    DevDependenciesEnsured =>
        LET before == Entries(prev.devDependencies)
            after == Entries(packageJson.devDependencies)
        IN  /\ packageJson.devDependencies.k = "obj"
            /\ DOMAIN before \subseteq DOMAIN after
            /\ DOMAIN after \subseteq DOMAIN before \cup DependencyNames
            /\ \A d \in DependencyNames :
                   IF HasValue(before, d)
                   THEN after[d] = before[d]
                   ELSE IF ToolHasVersion(comfyPackage, d)
                        THEN /\ d \in DOMAIN after
                             /\ after[d] = ToolVersion(comfyPackage, d)
                        ELSE /\ d \in DOMAIN after <=> d \in DOMAIN before
                             /\ d \in DOMAIN before => after[d] = before[d]
            /\ \A n \in DOMAIN before \ DependencyNames : after[n] = before[n]
            /\ [packageJson EXCEPT !.devDependencies = prev.devDependencies]
                   = prev

\* C6's case: the manifest pins typescript to a version other than the
\* tool's, has no jest, and has no eslint while the tool has none either
C6_Witness ==
    /\ DevDependenciesEnsured
    /\ prev.devDependencies.k = "obj"
    /\ HasValue(prev.devDependencies.v, "typescript")
    /\ ToolHasVersion(comfyPackage, "typescript")
    /\ ToolVersion(comfyPackage, "typescript")
           # prev.devDependencies.v["typescript"]
    /\ "jest" \notin DOMAIN prev.devDependencies.v
    /\ "eslint" \notin DOMAIN prev.devDependencies.v
    /\ ~ToolHasVersion(comfyPackage, "eslint")
    /\ packageJson.devDependencies.v["typescript"]
           = prev.devDependencies.v["typescript"]
    /\ packageJson.devDependencies.v["jest"]
           = ToolVersion(comfyPackage, "jest")
    /\ "eslint" \notin DOMAIN packageJson.devDependencies.v

\* the merge has been applied, and written, a second time or more
MergedAgain == runs >= 2 /\ pc = "writeTsconfig"

\* C7: applying the merge again with the same scheme, preference and
\* created changes nothing: no step of the second application changes the
\* manifest, and the manifest it writes is the one the first wrote.
C7_MergeIdempotent ==
    /\ runs >= 2 /\ pc \in { "deps", "sync", "writePackage" }
           => packageJson = prev
    /\ MergedAgain
           => /\ packageJson = read
              /\ fsPackage = File(Stringify(read))

\* C7's case: a second application under the preference "module", to a
\* manifest that holds the scripts, versions and type the first one wrote
C7_Witness ==
    /\ MergedAgain
    /\ read.type = JStr("module")
    /\ preference = "module"
    /\ "start" \in DOMAIN read.scripts.v
    /\ "typescript" \in DOMAIN read.devDependencies.v

\* syncPackageType has just acted: prev is the manifest it was given
TypeSynced == pc = "writePackage"

\* C8 on syncPackageType: under "auto" on an existing manifest the type is
\* left as it was; otherwise scheme "module" ends with type "module", and
\* scheme "commonjs" removes a type of "module" and leaves any other; the
\* value "commonjs" is never written; no other field changes.
C8_SyncRule ==
    TypeSynced =>
        /\ IF preference = "auto" /\ ~created
           THEN packageJson.type = prev.type
           ELSE IF moduleScheme = "module"
                THEN packageJson.type = JStr("module")
                ELSE packageJson.type =
                         IF prev.type = JStr("module") THEN JUndef
                         ELSE prev.type
        /\ packageJson.type = JStr("commonjs") => prev.type = JStr("commonjs")
        /\ [packageJson EXCEPT !.type = prev.type] = prev

\* init --module=commonjs on the scenario's manifest has written package.json
ScenarioWritten ==
    /\ runs = 1
    /\ pc = "writeTsconfig"
    /\ read = ScenarioManifest
    /\ preference = "commonjs"
    /\ ~created
    /\ moduleScheme = determineModuleScheme(preference, read, created)

\* C8 on the scenario: the manifest written has no type, keeps build as
\* "custom" and has start, clean, test and lint at their defaults.
C8_Scenario ==
    ScenarioWritten =>
        /\ fsPackage.k = "file"
        /\ ~ParseThrows(fsPackage.v)
        /\ LET written == JsonParse(fsPackage.v)
           IN  /\ written.type = JUndef
               /\ written.scripts.v["build"] = "custom"
               /\ \A n \in { "start", "clean", "test", "lint" } :
                      written.scripts.v[n] = scriptDefaults[n]

\* C8: the rule of syncPackageType, and the scenario that follows from it.
C8_SyncPackageType == C8_SyncRule /\ C8_Scenario

\* C8's case: the scenario's manifest was written with its type removed
C8_Witness == ScenarioWritten /\ JsonParse(fsPackage.v).type = JUndef

\* the lines of a text, cut at every "\n"
RECURSIVE LinesOf(_)
LinesOf(text) ==
    LET n == IndexOfNewline(text, 1)
    IN  IF n = 0 THEN << text >>
        ELSE << SubSeq(text, 1, n - 1) >>
                 \o LinesOf(SubSeq(text, n + 1, Len(text)))

\* the lines of a file that are a build-directory entry once trimmed
BuildEntries(file) ==
    IF file.k # "file" THEN {}
    ELSE LET lines == LinesOf(file.v)
         IN  { i \in 1..Len(lines) :
                 Trim(lines[i]) \in { "/build", "build/", "build" } }

\* ensureGitignore has just acted: prevGitignore is the file it found
GitignoreEnsured == pc = "srcDir"

\* C10: the first ensureGitignore leaves a file with a build-directory
\* line and adds at most one such line; every later one leaves the file
\* byte-identical.
C10_GitignoreIdempotent ==
    GitignoreEnsured =>
        /\ BuildEntries(fsGitignore) # {}
        /\ runs = 1 /\ prevGitignore # NoFile
               => Cardinality(BuildEntries(fsGitignore))
                      <= Cardinality(BuildEntries(prevGitignore)) + 1
        /\ runs = 1 /\ prevGitignore = NoFile
               => Cardinality(BuildEntries(fsGitignore)) = 1
        /\ runs >= 2 => fsGitignore = prevGitignore

\* C10's case: a third ensureGitignore on a file that had no
\* build-directory line, to which the first added the only one
C10_Witness ==
    /\ GitignoreEnsured
    /\ runs = 3
    /\ fsGitignore = File("dist\n/build\n")
    /\ Cardinality(BuildEntries(fsGitignore)) = 1

\* writePackageJson has acted in this run of init, which is still running
\* or has ended without an error
ManifestWritten ==
    \/ pc \in { "writeTsconfig", "writeEslint", "writeEditorconfig",
                "gitignore", "srcDir", "entryPoint" }
    \/ pc = "exit" /\ exitCode = 0 /\ command \in { "", "init" }

\* the fields of a manifest other than scripts, devDependencies and type
OtherFields(manifest) ==
    << manifest.main, manifest.module, manifest.exports, manifest.name >>

\* C9: the manifest a run writes back has, in every field other than
\* scripts, devDependencies and type, the value the run read.
C9_UnknownFieldsPreserved ==
    ManifestWritten =>
        /\ fsPackage.k = "file"
        /\ ~ParseThrows(fsPackage.v)
        /\ OtherFields(JsonParse(fsPackage.v)) = OtherFields(read)

\* C9's case: a run that ended without an error on a manifest with a name,
\* a main and an exports mapping, and that changed its scripts and its type
C9_Witness ==
    /\ pc = "exit"
    /\ exitCode = 0
    /\ command = "init"
    /\ read.name = JStr("app")
    /\ read.main = JStr("index.js")
    /\ read.exports.k = "obj"
    /\ JsonParse(fsPackage.v).scripts # read.scripts
    /\ JsonParse(fsPackage.v).type # read.type
    /\ OtherFields(JsonParse(fsPackage.v)) = OtherFields(read)

(***************************************************************************)
(* Runs compared: the run that ended, the run before it                    *)
(***************************************************************************)
\* configureProject returned: every step of init ran and none threw
InitCompleted == pc = "exit" /\ exitCode = 0 /\ moduleScheme # None

\* the run before this one was an init that completed
LastRunCompleted ==
    /\ lastRun # NoRun
    /\ lastRun.exitCode = 0
    /\ lastRun.moduleScheme # None

\* src/index.ts, the seventh file of a directory
EntryOf(dir) == dir[7]

\* C11: an init that completes after an init that completed under the same
\* preference resolves the same scheme and leaves every file of the
\* directory as it found it, also when the first of the two created the
\* manifest and the second found it; and no run changes a src/index.ts
\* that existed when the run started.
C11_RerunIsFixedPoint ==
    /\ InitCompleted /\ LastRunCompleted /\ lastRun.preference = preference
           => /\ moduleScheme = lastRun.moduleScheme
              /\ fsVars = startDir
    /\ EntryOf(startDir) # NoFile => fsEntry = EntryOf(startDir)

\* the first run created the manifest under "auto", the second found it
C11_Witness ==
    /\ InitCompleted
    /\ LastRunCompleted
    /\ lastRun.preference = "auto"
    /\ preference = "auto"
    /\ lastRun.startDir[1] = NoFile
    /\ created = FALSE
    /\ moduleScheme = "module"
    /\ fsVars = startDir

\* what ensurePackageJson returns in a directory: the manifest and created
EnsuredManifests(dir) ==
    IF dir[1] = NoFile
    THEN { << manifest, TRUE >> : manifest \in NpmInitManifests }
    ELSE { << JsonParse(dir[1].v), FALSE >> }

\* the scheme and the directory at the end of an init that no error
\* interrupts, started in dir with the preference pref
UninterruptedRuns(dir, pref, pkg) ==
    { LET scheme == determineModuleScheme(pref, ensured[1], ensured[2])
      IN  << scheme,
             << writePackageJson(
                    merged(ensured[1], pkg, scheme, pref, ensured[2])),
                File(Stringify(buildTsconfig(scheme))),
                File(eslintConfig(scheme)),
                File(editorConfig),
                ensureGitignore(dir[5]),
                TRUE,
                IF EntryOf(dir) = NoFile THEN File(entryPointText)
                ELSE EntryOf(dir) >> >> : ensured \in EnsuredManifests(dir) }

\* the run before this one passed the normalization and was aborted
LastRunAborted ==
    /\ lastRun # NoRun
    /\ lastRun.exitCode = 1
    /\ lastRun.preference # None

\* C12: an init that completes after a run that an error aborted, under
\* the same preference, ends with the scheme and the files that an
\* uninterrupted init on the directory of the aborted run ends with; from
\* an empty directory under "auto" that scheme is "module" and the
\* manifest declares type "module".
C12_RerunConvergesAfterFailure ==
    InitCompleted /\ LastRunAborted /\ lastRun.preference = preference
        => /\ << moduleScheme, fsVars >> \in
                  UninterruptedRuns(lastRun.startDir, preference, comfyPackage)
           /\ lastRun.startDir[1] = NoFile /\ preference = "auto"
                  => /\ moduleScheme = "module"
                     /\ packageJson.type = JStr("module")

\* what of C12 the program does: the re-run converges unless the aborted
\* run had created the manifest under "auto"
RerunConvergesUnlessCreatedAuto ==
    InitCompleted /\ LastRunAborted /\ lastRun.preference = preference
        /\ ~(lastRun.startDir[1] = NoFile /\ preference = "auto")
        => << moduleScheme, fsVars >> \in
               UninterruptedRuns(lastRun.startDir, preference, comfyPackage)

(***************************************************************************)
(* The order of the steps, and a run that a throw ends                     *)
(***************************************************************************)
\* how many of the seven writes are done when the step at pc is next
StepsDone ==
    [ writePackage |-> 0, writeTsconfig |-> 1, writeEslint |-> 2,
      writeEditorconfig |-> 3, gitignore |-> 4, srcDir |-> 5,
      entryPoint |-> 6 ]

\* the directory once ensurePackageJson returned: as the run found it, with
\* the manifest of npm init where there was none
EnsuredDir ==
    [startDir EXCEPT ![1] = IF @ = NoFile THEN File(Stringify(read)) ELSE @]

\* what each of the seven writes leaves, in the order of configureProject
WrittenDir ==
    LET scheme == determineModuleScheme(preference, read, created)
    IN  << writePackageJson(
               merged(read, comfyPackage, scheme, preference, created)),
           File(Stringify(buildTsconfig(scheme))),
           File(eslintConfig(scheme)),
           File(editorConfig),
           ensureGitignore(startDir[5]),
           TRUE,
           IF EntryOf(startDir) = NoFile THEN File(entryPointText)
           ELSE EntryOf(startDir) >>

\* the directory with the first k writes done and the others not begun
WrittenThrough(k) ==
    LET written == WrittenDir
        ensured == EnsuredDir
    IN  [ i \in 1..7 |-> IF i <= k THEN written[i] ELSE ensured[i] ]

\* the directories in which the first k writes are done, for each k of ks
WrittenThroughAny(ks) ==
    LET written == WrittenDir
        ensured == EnsuredDir
    IN  { [ i \in 1..7 |-> IF i <= k THEN written[i] ELSE ensured[i] ] :
            k \in ks }

\* the run of init is over and ensurePackageJson had returned
InitEnded ==
    /\ pc = "exit"
    /\ command \in { "", "init" }
    /\ read # JUndef

\* C13: the steps of init run in the order ensure manifest, detect, merge
\* scripts, merge dependencies, sync type, write manifest, write tsconfig,
\* write eslint config, write editorconfig, ensure .gitignore, ensure src:
\* before each write the writes ahead of it are done and the later ones
\* not begun.  A run that a throw ends has a non-zero exit code, keeps the
\* files written until then and writes no later one; the exit code is zero
\* exactly for the runs in which every step was performed.
C13_AbortWithoutRollback ==
    /\ pc \in WritingSteps
           => /\ moduleScheme =
                     determineModuleScheme(preference, read, created)
              /\ packageJson = merged(read, comfyPackage, moduleScheme,
                                      preference, created)
              /\ fsVars = WrittenThrough(StepsDone[pc])
              /\ exitCode = 0
    /\ InitEnded
           => /\ exitCode \in { 0, 1 }
              /\ exitCode = 0 => fsVars = WrittenThrough(7)
              /\ exitCode # 0 => fsVars \in WrittenThroughAny(0..6)
              /\ EntryOf(startDir) = NoFile /\ exitCode # 0
                     => fsVars # WrittenThrough(7)

\* a first run that a throw ended at the fourth write: three files are
\* new, the others as the run found them
C13_Witness ==
    /\ InitEnded
    /\ runs = 1
    /\ exitCode = 1
    /\ fsVars = WrittenThrough(3)
    /\ fsVars # WrittenThrough(2)
    /\ fsVars # WrittenThrough(4)
    /\ fsVars # startDir

(***************************************************************************)
(* The errors before the first write                                       *)
(***************************************************************************)
\* the values of --module that name none of the three preferences
UnrecognizedFlags ==
    { value \in Flags :
        /\ IsString(value)
        /\ Trim(value.v) # ""
        /\ \A p \in Preferences : ToLowerCase(Trim(value.v)) # p }

Unrecognized(value) == value \in UnrecognizedFlags

\* the run ended in ensurePackageJson: npm init failed
NpmInitFailed ==
    /\ pc = "exit"
    /\ command \in { "", "init" }
    /\ preference # None
    /\ startDir[1] = NoFile
    /\ read = JUndef

\* package.json as the run found it is not JSON
ManifestMalformed ==
    /\ startDir[1] # NoFile
    /\ ParseThrows(startDir[1].v)

\* C14: (a) with a --module value that is no preference, whatever the
\* command, npm init never runs and no file is written; (b) when npm init
\* fails and (c) when package.json is not JSON the run writes no file: the
\* directory is as the run found it.  In the three cases the run ends with
\* a non-zero exit code.
C14_EarlyErrorsLeaveProjectUntouched ==
    /\ Unrecognized(flag)
           => /\ fsVars = startDir
              /\ read = JUndef
              /\ pc \in { "start", "exit" }
              /\ pc = "exit" => exitCode # 0
    /\ NpmInitFailed => fsVars = startDir /\ exitCode # 0
    /\ ManifestMalformed
           => /\ fsVars = startDir
              /\ pc \notin WritingSteps
              /\ pc = "exit" /\ command \in { "", "init" }
                     /\ ~Unrecognized(flag)
                     => exitCode # 0

\* npm init failed in the directory that a run with an unrecognized --module
\* value had left without a package.json
C14_Witness ==
    /\ NpmInitFailed
    /\ exitCode = 1
    /\ lastRun # NoRun
    /\ lastRun.preference = None
    /\ lastRun.exitCode = 1
    /\ lastRun.startDir = startDir

\* the run found a package.json that is not JSON and ended
C14_MalformedEnded ==
    ManifestMalformed /\ pc = "exit" /\ preference # None /\ exitCode = 1

\* the command is help and the --module value is unrecognized
C14_UnrecognizedWithHelp ==
    Unrecognized(flag) /\ command = "help" /\ pc = "exit" /\ exitCode = 1

(***************************************************************************)
(* tsconfig.json                                                           *)
(***************************************************************************)
\* writeTsconfigJson has just written tsconfig.json
TsconfigWritten == pc = "writeEslint"

\* a tsconfig apart from module and moduleResolution
ApartFromModule(tsconfig) ==
    [tsconfig EXCEPT !.compilerOptions.module = "",
                     !.compilerOptions.moduleResolution = ""]

\* what every tsconfig.json the tool writes has, whatever the scheme
CommonTsconfig ==
    [ compilerOptions |->
        [ outDir |-> "./build", rootDir |-> "./src", sourceMap |-> TRUE,
          declaration |-> TRUE, declarationMap |-> TRUE, strict |-> TRUE,
          target |-> "ES2022", lib |-> << "ES2022", "DOM" >>,
          module |-> "", moduleResolution |-> "",
          moduleDetection |-> "force",
          allowSyntheticDefaultImports |-> TRUE, resolveJsonModule |-> TRUE,
          esModuleInterop |-> TRUE, isolatedModules |-> TRUE,
          skipLibCheck |-> TRUE, noEmitOnError |-> TRUE,
          types |-> << "node" >> ],
      include |-> << "./src/**/*" >>,
      exclude |-> << "node_modules", "build" >> ]

\* init --module=module ran to its end in a directory without package.json
ModuleInitOnEmpty ==
    /\ InitCompleted
    /\ preference = "module"
    /\ startDir[1] = NoFile
    /\ startDir[2] = NoFile

\* C15: the tsconfig.json written has module and moduleResolution
\* "NodeNext" for the scheme module, "CommonJS" and "Node" for commonjs,
\* and is otherwise the same for both; init --module=module on an empty
\* directory ends with type "module", the five scripts and module
\* "NodeNext".
C15_CompilerConfigFollowsScheme ==
    /\ TsconfigWritten
           => /\ fsTsconfig.k = "file"
              /\ ~ParseThrows(fsTsconfig.v)
              /\ LET options == JsonParse(fsTsconfig.v).compilerOptions
                 IN  /\ moduleScheme = "module"
                            => /\ options.module = "NodeNext"
                               /\ options.moduleResolution = "NodeNext"
                     /\ moduleScheme = "commonjs"
                            => /\ options.module = "CommonJS"
                               /\ options.moduleResolution = "Node"
              /\ ApartFromModule(JsonParse(fsTsconfig.v)) = CommonTsconfig
    /\ ModuleInitOnEmpty
           => /\ JsonParse(fsPackage.v).type = JStr("module")
              /\ \A n \in ScriptNames :
                     HasValue(Entries(JsonParse(fsPackage.v).scripts), n)
              /\ JsonParse(fsTsconfig.v).compilerOptions.module = "NodeNext"

\* the scenario ended: npm init created the manifest, the scheme is module
C15_Witness ==
    /\ ModuleInitOnEmpty
    /\ runs = 1
    /\ created
    /\ moduleScheme = "module"
    /\ JsonParse(fsTsconfig.v).compilerOptions.moduleResolution = "NodeNext"

\* tsconfig.json was just written for commonjs
C15_CommonjsWritten == TsconfigWritten /\ moduleScheme = "commonjs"

(***************************************************************************)
(* The declared type and the inferred signals                              *)
(***************************************************************************)
\* C16: under "auto" with a manifest that existed, the type "commonjs"
\* gives commonjs whatever main, module and exports say, and the type
\* "module" gives module when they say nothing.
C16_DeclaredTypeBeatsSignals ==
    Detected /\ preference = "auto" /\ ~created
        => /\ read.type = JStr("commonjs") => moduleScheme = "commonjs"
           /\ read.type = JStr("module") => moduleScheme = "module"

\* type "commonjs" next to a main ending in ".mjs" and an "import" key in
\* exports
C16_Witness ==
    /\ Detected
    /\ preference = "auto"
    /\ ~created
    /\ read.type = JStr("commonjs")
    /\ read.main = JStr("index.mjs")
    /\ IsTruthyObject(read.exports)
    /\ "import" \in DOMAIN read.exports.v
    /\ moduleScheme = "commonjs"

\* type "module" with no main, module or exports
C16_ModuleWithoutSignal ==
    /\ Detected
    /\ preference = "auto"
    /\ ~created
    /\ read.type = JStr("module")
    /\ read.main = JUndef
    /\ read.module = JUndef
    /\ read.exports = JUndef
    /\ moduleScheme = "module"

(***************************************************************************)
(* What ensureGitignore appends                                            *)
(***************************************************************************)
\* ensureGitignore found a file without a build-directory line
AppendedTo ==
    /\ GitignoreEnsured
    /\ prevGitignore # NoFile
    /\ BuildEntries(prevGitignore) = {}

\* the text is the original followed by the one line "/build", on a line
\* of its own
AppendsOneLine(before, after) ==
    \E separator \in { "", "\n" }, end \in { "", "\n" } :
        /\ after = before \o separator \o "/build" \o end
        /\ separator = "" => before = "" \/ EndsWith(before, "\n")

\* what of C17 does not depend on how the result ends: the original is a
\* prefix of the result, one line "/build" follows it, a file with a
\* build-directory line stays as it is, an absent file gets the two lines
GitignoreAppendOnly ==
    /\ AppendedTo
           => /\ fsGitignore.k = "file"
              /\ SubSeq(fsGitignore.v, 1, Len(prevGitignore.v))
                     = prevGitignore.v
              /\ AppendsOneLine(prevGitignore.v, fsGitignore.v)
              /\ Cardinality(BuildEntries(fsGitignore)) = 1
    /\ GitignoreEnsured /\ BuildEntries(prevGitignore) # {}
           => fsGitignore = prevGitignore
    /\ GitignoreEnsured /\ prevGitignore = NoFile
           => fsGitignore = File("node_modules/\n/build\n")

\* C17: on a file without a build-directory line ensureGitignore appends
\* the one line "/build" after the original content, which stays an exact
\* prefix, and the result ends with a newline exactly when the original
\* did; a file with a build-directory line is left as it is; an absent
\* file becomes the two lines "node_modules/" and "/build".
C17_GitignoreAppendPreservesNewline ==
    /\ GitignoreAppendOnly
    /\ AppendedTo
           => (EndsWith(fsGitignore.v, "\n")
                   <=> EndsWith(prevGitignore.v, "\n"))

\* ensureGitignore appended to a file that did not end with a newline
AppendedAfterUnterminatedLine ==
    /\ AppendedTo
    /\ prevGitignore = File("dist")
    /\ fsGitignore = File("dist\n/build\n")

(***************************************************************************)
(* An explicit preference, then "auto"                                     *)
(***************************************************************************)
\* this run is under "auto" and has detected its scheme; the run before it
\* was an init under an explicit preference that completed on a manifest
\* that existed
AutoAfterExplicit ==
    /\ preference = "auto"
    /\ moduleScheme # None
    /\ LastRunCompleted
    /\ lastRun.preference \in Schemes
    /\ lastRun.startDir[1] # NoFile

\* C18: an init under "auto" that follows a completed init under the
\* explicit preference P on an existing manifest resolves P again, and
\* writes tsconfig.json and eslint.config.js for P; also for P = commonjs
\* on a manifest whose main is "index.mjs".
C18_ExplicitChoiceSurvivesAuto ==
    /\ AutoAfterExplicit => moduleScheme = lastRun.preference
    /\ AutoAfterExplicit /\ InitCompleted
           => /\ fsTsconfig =
                     File(Stringify(buildTsconfig(lastRun.preference)))
              /\ fsEslint = File(eslintConfig(lastRun.preference))

\* what of C18 the program does: the explicit choice survives when it is
\* module, and when the manifest carries no module signal
ExplicitChoiceSurvivesUnlessSignal ==
    AutoAfterExplicit
        /\ ( \/ lastRun.preference = "module"
             \/ ~\E candidate \in exportCandidates(read) :
                     IsModuleCandidate(candidate) )
        => moduleScheme = lastRun.preference

\* "auto" after a completed init --module=commonjs on main "index.mjs"
AutoAfterCommonjsOnMjs ==
    /\ AutoAfterExplicit
    /\ lastRun.preference = "commonjs"
    /\ read.main = JStr("index.mjs")
    /\ read.type = JUndef
    /\ moduleScheme = "module"

====
